---- MODULE Spec2Model ----
(***************************************************************************)
(* A model of the impostor maker (src/impostormaker.py): the image layout  *)
(* planner ImageLayout, the pixel compositor ImageComposite, the face      *)
(* geometry of ImpostorFace and the build pipeline of ImpostorMaker.       *)
(***************************************************************************)
EXTENDS Integers, Sequences, FiniteSets, TLC

VARIABLES
    layout,         \* the ImageLayout object under test
    layoutErr,      \* outcome of the last getrect call: "None", "TooWide", "WontFit"
    layoutRaised,   \* TRUE once some getrect call on `layout` has raised
    image,          \* the ImageComposite under test: its size and its pixel buffer
    pasteArgs,      \* the arguments of the last paste call, <<inw, inh, x, y>>
    pasteErr,       \* outcome of the last paste call
    pasteCount,     \* number of paste calls made
    poly,           \* the polygon handed to ImpostorFace: its loop of vertex positions
    scale,          \* target.scale
    face,           \* the ImpostorFace built from it (FaceNone before the call)
    faceErr,        \* outcome of ImpostorFace.__init__ ("Pending" before the call)
    scene,          \* the Blender context execute is called in
    pc,             \* the statement of execute / buildimpostor that runs next
    result,         \* what execute returned ("Running" until it ends)
    report,         \* the error execute reported ("None": no report)
    status,         \* the status buildimpostor returned ("None": no error)
    excn,           \* the exception that left execute ("None": none did)
    target,         \* execute's target ("" before it is chosen)
    sources,        \* execute's sources
    dissolved,      \* limiteddissolve has rewritten the target's mesh
    faces,          \* buildimpostor's faces
    sortedfaces,    \* buildcomposite's sortedfaces
    layouts,        \* number of ImageLayout objects buildcomposite has made
    pass1,          \* the layout of pass 1, as pass 1 left it
    atlas,          \* the composite image of compositefaces
    hide_render,    \* target.hide_render
    children,       \* whether the target has child objects, once setnorender read it
    lamp,           \* the temporary lamp is linked into the scene
    renders,        \* number of bpy.ops.render.render calls made
    facei,          \* compositefaces' loop index i (from 1)
    loaded,         \* rendered images loaded and not yet deleted: their sizes
    uvs,            \* adduvlayer has set the target's UVs
    uv,             \* the UV pairs setuvs wrote: for each face, for each loop vertex
    published       \* outputcomposite has attached the image to the target's material

layoutVars == <<layout, layoutErr, layoutRaised>>

pasteVars == <<image, pasteArgs, pasteErr, pasteCount>>

faceVars == <<poly, scale, face, faceErr>>

runVars == <<pc, result, report, status, excn>>

buildVars ==
    <<scene, pc, result, report, status, excn, target, sources, dissolved, faces,
      sortedfaces, layouts, pass1, atlas, hide_render, children, lamp, renders, facei,
      loaded, uvs, uv, published>>

vars ==
    <<layout, layoutErr, layoutRaised, image, pasteArgs, pasteErr, pasteCount, poly,
      scale, face, faceErr, scene, pc, result, report, status, excn, target, sources,
      dissolved, faces, sortedfaces, layouts, pass1, atlas, hide_render, children, lamp,
      renders, facei, loaded, uvs, uv, published>>

\* ------------------------------------------------------------------ bounds

MaxMargin == 1
MaxLayoutWidth == 5
MaxLayoutHeight == 3
MaxRectWidth == 2
MaxRectHeight == 2
MaxRects == 3
MaxCompositeDim == 2
MaxSourceDim == 2
MaxPastes == 2
MaxCoord == 2
MaxLoop == 4

\* ----------------------------------------------------------------- helpers

Max(a, b) == IF a > b THEN a ELSE b

Min(a, b) == IF a < b THEN a ELSE b

\* Python's None for an optional integer: the empty tuple; a value h is <<h>>.
NoneVal == <<>>

Some(v) == <<v>>

\* Python truth of an optional integer (None and 0 are both false).
Truthy(o) == Len(o) = 1 /\ o[1] # 0

\* ------------------------------------------------------------- ImageLayout

\* ImageLayout.__init__
ImageLayout(margin, width, height) ==
    [width |-> width, height |-> height, margin |-> margin,
     xpos |-> 0, ypos |-> 0, ymax |-> 0, rects |-> <<>>]

\* the first test with the limit itself refused
TooWideAtLimit(l, width) == width >= l.width - 2 * l.margin

\* getrect, first test: the rectangle can never be placed
TooWide(l, width) == width > l.width - 2 * l.margin

\* getrect, second test: the rectangle goes on the current row
FitsInRow(l, width) == l.xpos + width + 2 * l.margin < l.width

NewRowYAtYpos(l) == l.ypos

\* getrect, "Must start a new row": the Y at which the new row starts
NewRowY(l) == l.ymax

\* getrect, both branches and the append: the layout after the rectangle is placed
PlaceRect(l, width, height) ==
    LET fits   == FitsInRow(l, width)
        ypos   == IF fits THEN l.ypos ELSE NewRowY(l)
        xpos   == IF fits THEN l.xpos ELSE 0
        corner == <<xpos + l.margin, ypos + l.margin>>
        rect   == <<corner[1], corner[2], corner[1] + width, corner[2] + height>>
    IN  [l EXCEPT !.xpos = xpos + width + l.margin,
                  !.ypos = ypos,
                  !.ymax = Max(l.ymax, ypos + height + l.margin),
                  !.rects = Append(@, rect)]

\* the test with the used height in place of the row's top
HeightExceededByUsed(l) == Truthy(l.height) /\ l.ymax + l.margin > l.height[1]

\* getrect, last test: "if specified size and won't fit"
HeightExceeded(l) == Truthy(l.height) /\ l.ypos > l.height[1]

\* ImageLayout.getrect: the layout afterwards, the error raised ("None" when the
\* call returns) and the rectangle returned
getrect(l, width, height) ==
    IF TooWide(l, width)
    THEN [layout |-> l, err |-> "TooWide", rect |-> <<>>]
    ELSE LET p == PlaceRect(l, width, height)
         IN  [layout |-> p,
              err |-> IF HeightExceeded(p) THEN "WontFit" ELSE "None",
              rect |-> p.rects[Len(p.rects)]]

\* ImageLayout.getsize
getsize(l) == IF Truthy(l.height) THEN <<l.width, l.height[1]>> ELSE <<l.width, l.ymax>>

\* ImageLayout.getrects
getrects(l) == l.rects

\* ---------------------------------------------------------- ImageComposite

\* ImageComposite.CHANNELS, RGBA
CHANNELS == 4

\* ImageComposite.__init__: an image of the given size, every channel 0.0
ImageComposite(width, height) ==
    [size |-> <<width, height>>, pixels |-> [k \in 1..(height * width * CHANNELS) |-> 0]]

\* a rendered source image: channel k (from 0) of its buffer holds the value k + 1
SourceImage(inw, inh) ==
    [size |-> <<inw, inh>>, pixels |-> [k \in 1..(inw * inh * CHANNELS) |-> k]]

PasteWontFitNoLowerCheck(inw, inh, x, y, outw, outh) == inw + x > outw \/ inh + y > outh

\* paste, "will it fit?"
PasteWontFit(inw, inh, x, y, outw, outh) ==
    inw + x > outw \/ inh + y > outh \/ x < 0 \/ y < 0

\* paste, "easy case, full rows"
PasteFullRows(inw, x, outw) == x = 0 /\ inw = outw

\* a Python slice index i on a buffer of length n, as the slice reads it
SliceIndex(i, n) == IF i < 0 THEN Max(i + n, 0) ELSE Min(i, n)

\* pixels[start:end] = src (offsets from 0): the buffer afterwards.  The property
\* array takes the assignment only when the slice is as long as src.
SliceFits(pixels, start, end, src) ==
    SliceIndex(end, Len(pixels)) - SliceIndex(start, Len(pixels)) = Len(src)

SliceAssign(pixels, start, end, src) ==
    LET s == SliceIndex(start, Len(pixels))
    IN  [k \in 1..Len(pixels) |->
            IF s < k /\ k <= s + Len(src) THEN src[k - s] ELSE pixels[k]]

\* img.pixels[instart : instart + n] (offsets from 0)
SliceOf(pixels, instart, n) == [k \in 1..n |-> pixels[instart + k]]

\* paste, "hard case, row by row": the loop over range(0, inh*stride, stride),
\* from row number `row` on
RECURSIVE PasteRows(_, _, _, _, _, _, _)
PasteRows(pixels, img, inw, inh, outpos, stride, row) ==
    IF row >= inh
    THEN [pixels |-> pixels, err |-> "None"]
    ELSE LET start   == outpos + row * stride
             end     == start + inw * CHANNELS
             instart == row * inw * CHANNELS
             src     == SliceOf(img.pixels, instart, inw * CHANNELS)
         IN  IF SliceFits(pixels, start, end, src)
             THEN PasteRows(SliceAssign(pixels, start, end, src),
                            img, inw, inh, outpos, stride, row + 1)
             ELSE [pixels |-> pixels, err |-> "SliceError"]

\* paste with the rows of the general path set apart by the width of the source
pasteSourceStride(im, img, x, y) ==
    LET inw  == img.size[1]
        inh  == img.size[2]
        outw == im.size[1]
        outh == im.size[2]
    IN  IF PasteWontFit(inw, inh, x, y, outw, outh)
        THEN [pixels |-> im.pixels, err |-> "ValueError"]
        ELSE IF PasteFullRows(inw, x, outw)
        THEN [pixels |-> im.pixels, err |-> "AttributeError"]
        ELSE PasteRows(im.pixels, img, inw, inh,
                       (x + y * outw) * CHANNELS, inw * CHANNELS, 0)

\* ImageComposite.paste(img, x, y): the pixel buffer afterwards and the error
\* raised ("None" when the call returns).  The full-row branch names
\* ImageComposite.ImageComposite.CHANNELS, an attribute the class does not have:
\* computing `end` raises AttributeError before anything is written.
paste(im, img, x, y) ==
    LET inw  == img.size[1]
        inh  == img.size[2]
        outw == im.size[1]
        outh == im.size[2]
    IN  IF PasteWontFit(inw, inh, x, y, outw, outh)
        THEN [pixels |-> im.pixels, err |-> "ValueError"]
        ELSE IF PasteFullRows(inw, x, outw)
        THEN [pixels |-> im.pixels, err |-> "AttributeError"]
        ELSE PasteRows(im.pixels, img, inw, inh,
                       (x + y * outw) * CHANNELS, outw * CHANNELS, 0)

\* no ImageComposite exists
IdleImage == [size |-> <<0, 0>>, pixels |-> <<>>]

\* ------------------------------------------------------------ ImpostorFace

\* NORMALERROR = 0.001, as the fraction NORMALERROR_NUM / NORMALERROR_DEN
NORMALERROR_NUM == 1

NORMALERROR_DEN == 1000

\* the tolerance 0.01 of the "Vertex not on face plane" assertions, as a fraction
PLANEERROR_NUM == 1

PLANEERROR_DEN == 100

Abs(a) == IF a < 0 THEN -a ELSE a

RECURSIVE Gcd(_, _)
Gcd(a, b) == IF b = 0 THEN a ELSE Gcd(b, a % b)

\* mathutils.Vector arithmetic, on vectors with integer components
VSub(a, b) == <<a[1] - b[1], a[2] - b[2], a[3] - b[3]>>

VAdd(a, b) == <<a[1] + b[1], a[2] + b[2], a[3] + b[3]>>

VCross(a, b) ==
    <<a[2] * b[3] - a[3] * b[2], a[3] * b[1] - a[1] * b[3], a[1] * b[2] - a[2] * b[1]>>

VDot(a, b) == a[1] * b[1] + a[2] * b[2] + a[3] * b[3]

\* the square of Vector.length
Norm2(a) == VDot(a, a)

\* Vector.normalize(): the unit vector of direction c is kept as the shortest
\* integer vector of that direction; its length is divided out where it is used
Normalized(c) ==
    LET g == Gcd(Abs(c[1]), Gcd(Abs(c[2]), Abs(c[3])))
    IN  <<c[1] \div g, c[2] \div g, c[3] \div g>>

\* vecmult: element by element multiply, for scaling
vecmult(v0, v1) == <<v0[1] * v1[1], v0[2] * v1[2], v0[3] * v1[3]>>

\* "cross.length < NORMALERROR": |c|^2 * DEN^2 < NUM^2, for an integer |c|^2
CrossTooShort(c) ==
    Norm2(c) <= (NORMALERROR_NUM * NORMALERROR_NUM - 1)
                    \div (NORMALERROR_DEN * NORMALERROR_DEN)

\* "abs(self.normal.dot(cross)) < 1.0 - NORMALERROR" for the unit vectors of
\* directions n and c: (n.c)^2 * DEN^2 < (DEN - NUM)^2 * |n|^2 * |c|^2, written
\* as a * (DEN^2 - (DEN-NUM)^2) < (b - a) * (DEN-NUM)^2 with a = (n.c)^2 <= b
NormalsDisagree(n, c) ==
    LET a    == VDot(n, c) * VDot(n, c)
        b    == Norm2(n) * Norm2(c)
        k    == (NORMALERROR_DEN - NORMALERROR_NUM) * (NORMALERROR_DEN - NORMALERROR_NUM)
        lhs  == a * (NORMALERROR_DEN * NORMALERROR_DEN - k)
    IN  IF b - a > lhs \div k THEN TRUE ELSE lhs < (b - a) * k

\* element k (from 0) of the circular loop
LoopAt(loop, k) == loop[(k % Len(loop)) + 1]

\* no face: the fields of ImpostorFace as __init__ first sets them
FaceNone ==
    [normal |-> <<>>, scaledverts |-> <<>>, baseedge |-> <<>>, baseedgelength2 |-> -1,
     centersum |-> <<>>, looptotal |-> 0, facebounds |-> <<>>]

\* the test that picks the base edge: "if edgelength > baseedgelength"
LongerEdge(edgelength2, baseedgelength2) == edgelength2 > baseedgelength2

\* one pass of "for loop_index in range(len(meloop))": the fields afterwards and
\* the error raised in the pass ("None" when it ends or continues)
FaceLoopStep(f, loop, sc, loop_index) ==
    LET v0    == vecmult(sc, LoopAt(loop, loop_index))
        v1    == vecmult(sc, LoopAt(loop, loop_index + 1))
        v2    == vecmult(sc, LoopAt(loop, loop_index + 2))
        saved == [f EXCEPT !.scaledverts = Append(@, v0)]
        cross == VCross(VSub(v1, v0), VSub(v2, v1))
        unit  == Normalized(cross)
        edge2 == Norm2(VSub(v1, v0))
    IN  IF CrossTooShort(cross)
        THEN [face |-> saved, err |-> "None"]                  \* continue
        ELSE IF f.normal # <<>> /\ NormalsDisagree(f.normal, unit)
        THEN [face |-> saved, err |-> "NotFlat"]
        ELSE [face |->
                 [saved EXCEPT
                     !.normal = IF f.normal # <<>> THEN f.normal ELSE unit,
                     !.baseedgelength2 =
                         IF LongerEdge(edge2, f.baseedgelength2) THEN edge2 ELSE @,
                     !.baseedge =
                         IF LongerEdge(edge2, f.baseedgelength2) THEN <<v0, v1>> ELSE @,
                     !.centersum = IF f.centersum = <<>> THEN v0 ELSE VAdd(@, v0)],
              err |-> "None"]

\* the whole loop over the polygon's vertices, from pass loop_index on
RECURSIVE FaceLoop(_, _, _, _)
FaceLoop(f, loop, sc, loop_index) ==
    IF loop_index >= Len(loop)
    THEN [face |-> f, err |-> "None"]
    ELSE LET r == FaceLoopStep(f, loop, sc, loop_index)
         IN  IF r.err # "None" THEN r ELSE FaceLoop(r.face, loop, sc, loop_index + 1)

\* the largest k with k * k <= n, by bisection: lo * lo <= n < hi * hi
RECURSIVE ISqrtBetween(_, _, _)
ISqrtBetween(n, lo, hi) ==
    IF hi - lo <= 1 THEN lo
    ELSE LET mid == (lo + hi) \div 2
         IN  IF mid * mid <= n THEN ISqrtBetween(n, mid, hi) ELSE ISqrtBetween(n, lo, mid)

\* Vector.length of a vector of squared length n, when that is a whole number
ISqrt(n) == ISqrtBetween(n, 0, Min(n + 1, 46341))

\* matrixlookat(center, center - normal, upvec) with upvec = xvec.cross(normal):
\* the directions of the X, Y and Z axes of the face plane (the columns of rot,
\* before they are normalized)
FacePlaneAxes(f) ==
    LET xvec  == VSub(f.baseedge[2], f.baseedge[1])
        upvec == VCross(xvec, f.normal)
        z     == f.normal
        x     == VCross(upvec, z)
        y     == VCross(z, x)
    IN  [x |-> x, y |-> y, z |-> z]

\* looptotal times the coordinate of vertex v along the axis of direction a,
\* times |a|: (faceplanematinv * v) . axis, with center = centersum / looptotal
PlaneCoord(f, v, a) ==
    VDot(a, VSub(<<f.looptotal * v[1], f.looptotal * v[2], f.looptotal * v[3]>>,
                 f.centersum))

\* "assert abs(pt[2] < 0.01)": the assertion passes.  The comparison is inside
\* abs(): the value asserted is abs(True) = 1 when pt[2] < 0.01 and abs(False) = 0
\* otherwise, so the assertion fails exactly when pt[2] >= 0.01.
OnFacePlane(f, v) ==
    LET m  == PlaneCoord(f, v, FacePlaneAxes(f).z)
        n  == f.looptotal * f.looptotal * Norm2(FacePlaneAxes(f).z)
              * PLANEERROR_NUM * PLANEERROR_NUM
        d2 == PLANEERROR_DEN * PLANEERROR_DEN
    IN  ~(m > 0 /\ m * m >= (n + d2 - 1) \div d2)

SetMax(S) == CHOOSE a \in S : \A b \in S : b <= a

SetMin(S) == CHOOSE a \in S : \A b \in S : a <= b

\* maxx - minx (axis x) and maxy - miny (axis y) over the projected vertices, as
\* the fractions num / den; den is the length of the axis vector, which the
\* polygons used with the pipeline keep a whole number
FaceBounds(f) ==
    LET ax == FacePlaneAxes(f)
        xs == {VDot(ax.x, f.scaledverts[k]) : k \in 1..Len(f.scaledverts)}
        ys == {VDot(ax.y, f.scaledverts[k]) : k \in 1..Len(f.scaledverts)}
    IN  [wnum |-> SetMax(xs) - SetMin(xs), wden |-> ISqrt(Norm2(ax.x)),
         hnum |-> SetMax(ys) - SetMin(ys), hden |-> ISqrt(Norm2(ax.y))]

\* ImpostorFace.__init__(context, target, poly): the face built and the error
\* raised ("None" when the constructor returns)
ImpostorFace(loop, sc) ==
    IF Len(loop) < 3
    THEN [face |-> FaceNone, err |-> "LessThan3"]
    ELSE LET r == FaceLoop(FaceNone, loop, sc, 0)
             f == [r.face EXCEPT !.looptotal = Len(loop)]
         IN  IF r.err # "None" THEN r
             ELSE IF f.normal = <<>> THEN [face |-> f, err |-> "NoNormal"]
             ELSE IF \E k \in 1..Len(f.scaledverts) : ~OnFacePlane(f, f.scaledverts[k])
             THEN [face |-> f, err |-> "AssertionError"]
             ELSE [face |-> [f EXCEPT !.facebounds = FaceBounds(f)], err |-> "None"]

\* ImpostorFace.setuvs(target, rect, margin, finalimagesize): the UV pair written
\* for each loop vertex, u = un / ud and v = vn / vd.  With center the middle of
\* the face bounds, fractpt = (pt + bounds/2) / bounds is (X - minX) / (maxX - minX)
\* along each axis of the face plane.
setuvs(f, rect, margin, finalimagesize) ==
    LET ax    == FacePlaneAxes(f)
        X(k)  == VDot(ax.x, f.scaledverts[k])
        Y(k)  == VDot(ax.y, f.scaledverts[k])
        verts == 1..Len(f.scaledverts)
        minx  == SetMin({X(k) : k \in verts})
        miny  == SetMin({Y(k) : k \in verts})
        insetrect == <<rect[1] + margin, rect[2] + margin, rect[3] - margin, rect[4] - margin>>
    IN  [k \in verts |->
            [un |-> insetrect[1] * f.facebounds.wnum
                        + (X(k) - minx) * (insetrect[3] - insetrect[1]),
             ud |-> f.facebounds.wnum * finalimagesize[1],
             vn |-> insetrect[2] * f.facebounds.hnum
                        + (Y(k) - miny) * (insetrect[4] - insetrect[2]),
             vd |-> f.facebounds.hnum * finalimagesize[2]]]

\* ----------------------------------------------------------- ImpostorMaker

\* DRAWABLE, the drawable object types
DRAWABLE == {"MESH", "CURVE", "SURFACE", "META", "FONT", "ARMATURE", "LATTICE"}

\* PIXELSNEEDED = SCREENFRACT*TEXELSPERPIXEL*SCREENSIZE = 95.39997564..., as the
\* fraction PIXELSNEEDED_NUM / PIXELSNEEDED_DEN
PIXELSNEEDED_NUM == 9539997

PIXELSNEEDED_DEN == 100000

TEXMAPWIDTH == 512

MARGIN == 3

\* ImpostorMaker.MAXIMAGEDIM
MAXIMAGEDIM == 1024

\* nextpowerof2(n, maxval): the loop "while x < n", from x on; the value returned
\* and the error raised ("None" when the call returns)
RECURSIVE NextPowerFrom(_, _, _)
NextPowerFrom(x, n, maxval) ==
    IF x < n
    THEN IF x > maxval
         THEN [val |-> 0, err |-> "TooLarge"]
         ELSE NextPowerFrom(x * 2, n, maxval)
    ELSE [val |-> x, err |-> "None"]

nextpowerof2(n, maxval) == NextPowerFrom(1, n, maxval)

\* counttriangles(obj) for a mesh with the given polygons: tris = verts - 2
RECURSIVE counttriangles(_)
counttriangles(polygons) ==
    IF polygons = <<>> THEN 0
    ELSE (Len(Head(polygons)) - 2) + counttriangles(Tail(polygons))

\* face f is narrower than face g: the sort key of buildcomposite, getfacebounds()[0]
Narrower(f, g) ==
    f.facebounds.wnum * g.facebounds.wden < g.facebounds.wnum * f.facebounds.wden

\* sorted(faces, key = width, reverse=True): widest first, equal widths in the
\* order of `faces`; `done` holds the faces sorted so far
RECURSIVE SortedInto(_, _)
SortedInto(done, fs) ==
    IF fs = <<>> THEN done
    ELSE LET f    == Head(fs)
             keep == {k \in 1..Len(done) : ~Narrower(done[k], f)}
             n    == IF keep = {} THEN 0 ELSE SetMax(keep)
         IN  SortedInto(SubSeq(done, 1, n) \o <<f>> \o SubSeq(done, n + 1, Len(done)),
                        Tail(fs))

sortedbywidth(fs) == SortedInto(<<>>, fs)

\* calcscalefactor: PIXELSNEEDED / widest as the fraction num / den, and the
\* error raised ("Faces have zero size.")
calcscalefactor(sorted) ==
    LET widest == sorted[1].facebounds
    IN  IF widest.wnum <= 0
        THEN [num |-> 0, den |-> 1, err |-> "ZeroSize"]
        ELSE [num |-> PIXELSNEEDED_NUM * (widest.wden \div Gcd(widest.wnum, widest.wden)),
              den |-> PIXELSNEEDED_DEN * (widest.wnum \div Gcd(widest.wnum, widest.wden)),
              err |-> "None"]

\* int(math.floor(bound * scalefactor)) for the bound num / den, in lowest terms
PixelsOf(num, den, sf) ==
    ((num \div Gcd(num, den)) * sf.num) \div ((den \div Gcd(num, den)) * sf.den)

\* layoutcomposite: the loop "for face in sortedfaces", from face number i on;
\* the layout afterwards and the error that ended the loop
RECURSIVE layoutcomposite(_, _, _, _)
layoutcomposite(l, sorted, sf, i) ==
    IF i > Len(sorted)
    THEN [layout |-> l, err |-> "None"]
    ELSE LET fb == sorted[i].facebounds
             r  == getrect(l, PixelsOf(fb.wnum, fb.wden, sf), PixelsOf(fb.hnum, fb.hden, sf))
         IN  IF r.err # "None"
             THEN [layout |-> r.layout, err |-> r.err]
             ELSE layoutcomposite(r.layout, sorted, sf, i + 1)

\* [ImpostorFace(context, target, poly) for poly in target.data.polygons], from
\* polygon number i on: the faces built and the error of the first constructor
\* that raised
RECURSIVE facesof(_, _, _, _)
facesof(polygons, sc, i, built) ==
    IF i > Len(polygons)
    THEN [faces |-> built, err |-> "None"]
    ELSE LET r == ImpostorFace(polygons[i], sc)
         IN  IF r.err # "None"
             THEN [faces |-> built, err |-> r.err]
             ELSE facesof(polygons, sc, i + 1, Append(built, r.face))

\* rendertofile: "assert abs(height-heightalt) < 2" passes, with
\* heightalt = floor((facebounds[1] / facebounds[0]) * width)
HeightEstimateOk(f, width, height) ==
    LET fb        == f.facebounds
        heightalt == (fb.hnum * fb.wden * width) \div (fb.hden * fb.wnum)
    IN  Abs(height - heightalt) < 2

\* the parts of the state a specification does not use
IdleLayout == layout = ImageLayout(0, 1, NoneVal) /\ layoutErr = "None" /\ layoutRaised = FALSE

IdlePaste == image = IdleImage /\ pasteArgs = <<>> /\ pasteErr = "None" /\ pasteCount = 0

IdleFace == poly = <<>> /\ scale = <<1, 1, 1>> /\ face = FaceNone /\ faceErr = "Pending"

\* no composite image yet
NoAtlas == [created |-> FALSE, size |-> <<0, 0>>, pasted |-> <<>>]

\* execute has not been called
NotStarted ==
    /\ pc = "execute" /\ result = "Running" /\ report = "None" /\ status = "None"
    /\ excn = "None" /\ target = "" /\ sources = <<>> /\ dissolved = FALSE
    /\ faces = <<>> /\ sortedfaces = <<>> /\ layouts = 0
    /\ pass1 = ImageLayout(0, 1, NoneVal) /\ atlas = NoAtlas /\ hide_render = FALSE
    /\ children = FALSE /\ lamp = FALSE /\ renders = 0 /\ facei = 0 /\ loaded = <<>>
    /\ uvs = FALSE /\ uv = <<>> /\ published = FALSE

NoScene ==
    [selected_objects |-> <<>>, visible_objects |-> {}, polygons |-> <<>>, camera |-> FALSE]

IdleBuild == scene = NoScene /\ NotStarted

\* ------------------------------------------- the layout planner on its own

LayoutHeights == {NoneVal} \cup {Some(h) : h \in 0..MaxLayoutHeight}

InitLayout ==
    /\ \E m \in 0..MaxMargin, w \in 1..MaxLayoutWidth, h \in LayoutHeights :
           layout = ImageLayout(m, w, h)
    /\ layoutErr = "None"
    /\ layoutRaised = FALSE
    /\ image = IdleImage /\ pasteArgs = <<>> /\ pasteErr = "None" /\ pasteCount = 0
    /\ IdleFace
    /\ IdleBuild

\* one call layout.getrect(width, height)
GetRect ==
    /\ Len(layout.rects) < MaxRects
    /\ \E width \in 0..MaxRectWidth, height \in 0..MaxRectHeight :
           LET r == getrect(layout, width, height)
           IN  /\ layout' = r.layout
               /\ layoutErr' = r.err
               /\ layoutRaised' = (layoutRaised \/ r.err # "None")
    /\ UNCHANGED <<pasteVars, faceVars, buildVars>>

NextLayout == GetRect

SpecLayout == InitLayout /\ [][NextLayout]_vars

\* ------------------------------------------------ the compositor on its own

InitPaste ==
    /\ \E w \in 1..MaxCompositeDim, h \in 1..MaxCompositeDim : image = ImageComposite(w, h)
    /\ pasteArgs = <<>> /\ pasteErr = "None" /\ pasteCount = 0
    /\ IdleLayout
    /\ IdleFace
    /\ IdleBuild

\* one call image.paste(img, x, y) with a source image of size (inw, inh)
Paste ==
    /\ pasteCount < MaxPastes
    /\ \E inw \in 1..MaxSourceDim, inh \in 1..MaxSourceDim,
          x \in -1..MaxCompositeDim, y \in -1..MaxCompositeDim :
           LET r == paste(image, SourceImage(inw, inh), x, y)
           IN  /\ image' = [image EXCEPT !.pixels = r.pixels]
               /\ pasteErr' = r.err
               /\ pasteArgs' = <<inw, inh, x, y>>
    /\ pasteCount' = pasteCount + 1
    /\ UNCHANGED <<layoutVars, faceVars, buildVars>>

NextPaste == Paste

SpecPaste == InitPaste /\ [][NextPaste]_vars

\* --------------------------------------------- the face constructor on its own

\* vertex positions (mesh coordinates) on a grid in the plane z = 0 or z = 1
GridPoints(z) == {<<x, y, z>> : x \in 0..MaxCoord, y \in 0..MaxCoord}

\* a polygon's loop names each of its vertices once
Distinct(loop) == \A i, j \in 1..Len(loop) : i # j => loop[i] # loop[j]

RECURSIVE LoopsOfLen(_, _)
LoopsOfLen(pts, n) ==
    IF n = 0 THEN {<<>>}
    ELSE {Append(l, q) : l \in LoopsOfLen(pts, n - 1), q \in pts}

\* no side of the polygon folds back onto the side before it
NoSpike(loop) ==
    \A k \in 0..(Len(loop) - 1) :
        LET a == VSub(LoopAt(loop, k + 1), LoopAt(loop, k))
            b == VSub(LoopAt(loop, k + 2), LoopAt(loop, k + 1))
        IN  VCross(a, b) = <<0, 0, 0>> => VDot(a, b) > 0

PlanarLoops(z) ==
    {l \in UNION {LoopsOfLen(GridPoints(z), n) : n \in 2..MaxLoop} :
        Distinct(l) /\ (Len(l) > 2 => NoSpike(l))}

\* the loop with its last vertex raised by one off the plane
Lifted(l) == [l EXCEPT ![Len(l)] = <<@[1], @[2], @[3] + 1>>]

\* polygons with a vertex that splits a straight side (a T-junction):
\* a trapezoid whose longest side is split, and a strip 1 wide and `tall` long
\* whose two long sides are split one unit before their ends
Trapezoid == << <<0,0,0>>, <<3,0,0>>, <<4,0,0>>, <<3,1,0>>, <<1,1,0>> >>

Strip(tall) ==
    << <<0,0,0>>, <<1,0,0>>, <<1,tall - 1,0>>, <<1,tall,0>>, <<0,tall,0>>, <<0,1,0>> >>

FaceLoops ==
    PlanarLoops(0) \cup PlanarLoops(1) \cup {Lifted(l) : l \in PlanarLoops(0)}
        \cup {Trapezoid}

\* target.scale; execute admits no negative component
Scales == {<<1, 1, 1>>, <<2, 1, 1>>}

InitFace ==
    /\ poly \in FaceLoops
    /\ scale \in Scales
    /\ face = FaceNone /\ faceErr = "Pending"
    /\ IdleLayout
    /\ IdlePaste
    /\ IdleBuild

\* ImpostorFace(context, target, poly)
BuildFace ==
    /\ faceErr = "Pending"
    /\ LET r == ImpostorFace(poly, scale)
       IN  face' = r.face /\ faceErr' = r.err
    /\ UNCHANGED <<poly, scale, layoutVars, pasteVars, buildVars>>

NextFace == BuildFace

SpecFace == InitFace /\ [][NextFace]_vars

\* ----------------------------------------------- the operator: execute

\* the objects of the scene and obj.type: two meshes, a curve and an empty
ObjectNames == {"A", "B", "V", "E"}

TypeOf(obj) ==
    CASE obj \in {"A", "B"} -> "MESH"
      [] obj = "V" -> "CURVE"
      [] OTHER -> "EMPTY"

Square == << <<0,0,0>>, <<1,0,0>>, <<1,1,0>>, <<0,1,0>> >>

\* the unit cube, six quads with outward normals
Cube ==
    << << <<0,0,0>>, <<0,1,0>>, <<1,1,0>>, <<1,0,0>> >>,
       << <<0,0,1>>, <<1,0,1>>, <<1,1,1>>, <<0,1,1>> >>,
       << <<0,0,0>>, <<1,0,0>>, <<1,0,1>>, <<0,0,1>> >>,
       << <<0,1,0>>, <<0,1,1>>, <<1,1,1>>, <<1,1,0>> >>,
       << <<0,0,0>>, <<0,0,1>>, <<0,1,1>>, <<0,1,0>> >>,
       << <<1,0,0>>, <<1,1,0>>, <<1,1,1>>, <<1,0,1>> >> >>

\* a flat pentagon in the plane z = 1, one side split by a vertex
UpSplit == << <<0,0,1>>, <<1,0,1>>, <<2,0,1>>, <<2,2,1>>, <<0,2,1>> >>

\* a plank, 32 long and 1 wide
Plank == << <<0,0,0>>, <<32,0,0>>, <<32,1,0>>, <<0,1,0>> >>

\* a beam, 96 long and 1 wide
Beam == << <<0,0,0>>, <<96,0,0>>, <<96,1,0>>, <<0,1,0>> >>

\* a ribbon 3 wide and `tall` long (tall even) with sides in zigzag: its base
\* (0,0)-(2,0) is its longest edge, the right side runs up between x = 2 and
\* x = 3 and the left side down between x = 0 and x = 1, one unit a step
Ribbon(tall) ==
    << <<0, 0, 0>> >>
        \o [k \in 1..(tall + 1) |-> <<2 + ((k - 1) % 2), k - 1, 0>>]
        \o [k \in 1..tall |-> <<(tall + 1 - k) % 2, tall + 1 - k, 0>>]

\* polygons a mesh can hold: sound ones, long strips, and degenerate ones (two
\* vertices, three vertices in line, a quad bent out of its plane)
PolyLibrary ==
    {Square, Trapezoid, Strip(15), Strip(22), UpSplit,
     << <<0,0,0>>, <<1,0,0>> >>,
     << <<0,0,0>>, <<1,0,0>>, <<2,0,0>> >>,
     << <<0,0,0>>, <<1,0,0>>, <<1,1,0>>, <<0,1,1>> >>}

MaxPolys == 2

MaxSelected == 2

\* the polygon lists of mesh "A": up to MaxPolys polygons of the library, the
\* cube, the plank, the ribbon, or the beam with a unit square
Meshes ==
    UNION {LoopsOfLen(PolyLibrary, n) : n \in 0..MaxPolys}
        \cup {Cube, <<Plank>>, <<Ribbon(18)>>, <<Beam, Square>>}

Selections ==
    {sel \in UNION {LoopsOfLen(ObjectNames, n) : n \in 0..MaxSelected} : Distinct(sel)}

Range(seq) == {seq[k] : k \in 1..Len(seq)}

\* scale of the selected target: Scales, or mirrored along Z
TargetScales == Scales \cup {<<1, 1, -1>>}

InitBuild ==
    /\ \E sel \in Selections, more \in SUBSET {"B", "V"}, a \in Meshes,
          b \in {<<Square>>, Cube} :
           scene = [selected_objects |-> sel,
                    visible_objects |-> Range(sel) \cup more,
                    polygons |-> [A |-> a, B |-> b],
                    camera |-> FALSE]
    /\ scale \in TargetScales
    /\ NotStarted
    /\ IdleLayout
    /\ IdlePaste
    /\ poly = <<>> /\ face = FaceNone /\ faceErr = "Pending"

\* the exception class behind each error of the build
ExceptionOf(err) ==
    CASE err \in {"LessThan3", "NotFlat", "NoNormal", "NoCamera"} -> "RuntimeError"
      [] err \in {"ZeroSize", "TooWide", "WontFit", "TooLarge", "PasteWontFit"} -> "ValueError"
      [] OTHER -> err

\* an exception raised inside buildimpostor: "except (ValueError, RuntimeError)"
\* turns it into the status, which execute reports before it returns FINISHED;
\* any other exception leaves buildimpostor and execute
Raise(err) ==
    /\ pc' = "done"
    /\ IF ExceptionOf(err) \in {"ValueError", "RuntimeError"}
       THEN status' = err /\ report' = err /\ result' = "FINISHED" /\ excn' = "None"
       ELSE status' = "None" /\ report' = "None" /\ result' = "EXCEPTION"
            /\ excn' = ExceptionOf(err)

\* execute returns CANCELLED after self.report(ERROR_INVALID_INPUT, msg)
Cancel(msg) ==
    /\ pc' = "done" /\ result' = "CANCELLED" /\ report' = msg
    /\ UNCHANGED <<status, excn>>

Goto(next) == pc' = next /\ UNCHANGED <<result, report, status, excn>>

\* the elements of seq that are in keep, in order
RECURSIVE Filter(_, _)
Filter(seq, keep) ==
    IF seq = <<>> THEN <<>>
    ELSE IF Head(seq) \in keep THEN <<Head(seq)>> \o Filter(Tail(seq), keep)
    ELSE Filter(Tail(seq), keep)

\* context.visible_objects, a list: the set's objects in the order of the scene
ListOf(S) == Filter(<<"A", "B", "V", "E">>, S)

\* execute's sources for a target: selected_objects[:-1], or else every visible
\* object but the target; then only the drawables
SourcesOf(sc, tgt) ==
    LET sel   == sc.selected_objects
        given == SubSeq(sel, 1, Len(sel) - 1)
        from  == IF given # <<>> THEN given ELSE ListOf(sc.visible_objects \ {tgt})
    IN  Filter(from, {obj \in ObjectNames : TypeOf(obj) \in DRAWABLE})

\* sum(counttriangles(obj) for obj in objs); obj.data.polygons exists for meshes only
RECURSIVE sumtriangles(_, _)
sumtriangles(sc, objs) ==
    IF objs = <<>> THEN 0
    ELSE counttriangles(sc.polygons[Head(objs)]) + sumtriangles(sc, Tail(objs))

\* execute, up to the call of buildimpostor
Execute ==
    /\ pc = "execute"
    /\ IF scene.selected_objects = <<>>
       THEN Cancel("NothingSelected") /\ UNCHANGED <<target, sources>>
       ELSE LET tgt  == scene.selected_objects[1]
                srcs == SourcesOf(scene, tgt)
            IN  /\ target' = tgt
                /\ IF TypeOf(tgt) # "MESH"
                   THEN Cancel("NotMesh") /\ UNCHANGED sources
                   ELSE IF scale[1] < 0 \/ scale[2] < 0 \/ scale[3] < 0
                   THEN Cancel("NegativeScale") /\ UNCHANGED sources
                   ELSE /\ sources' = srcs
                        /\ IF srcs = <<>>
                           THEN Cancel("NoDrawable")
                           ELSE IF \E k \in 1..Len(srcs) : TypeOf(srcs[k]) # "MESH"
                           THEN Raise("AttributeError")
                           ELSE IF counttriangles(scene.polygons[tgt]) > sumtriangles(scene, srcs)
                           THEN Cancel("MoreTriangles")
                           ELSE Goto("dissolve")
    /\ UNCHANGED <<scene, dissolved, faces, sortedfaces, layouts, pass1, atlas, hide_render,
                   children, lamp, renders, facei, loaded, uvs, uv, published>>
    /\ UNCHANGED <<layoutVars, pasteVars, faceVars>>

\* ------------------------------------- buildimpostor and buildcomposite

\* limiteddissolve(context, target).  The meshes of the scene hold no coplanar
\* neighbours to merge: the dissolve writes their polygons back as they are.
LimitedDissolve ==
    /\ pc = "dissolve"
    /\ dissolved' = TRUE
    /\ Goto("faces")
    /\ UNCHANGED <<scene, target, sources, faces, sortedfaces, layouts, pass1, atlas,
                   hide_render, children, lamp, renders, facei, loaded, uvs, uv, published>>
    /\ UNCHANGED <<layoutVars, pasteVars, faceVars>>

\* faces = [ImpostorFace(context, target, poly) for poly in target.data.polygons]
ComputeFaces ==
    /\ pc = "faces"
    /\ LET r == facesof(scene.polygons[target], scale, 1, <<>>)
       IN  IF r.err # "None"
           THEN Raise(r.err) /\ UNCHANGED faces
           ELSE Goto("pass1") /\ faces' = r.faces
    /\ UNCHANGED <<scene, target, sources, dissolved, sortedfaces, layouts, pass1, atlas,
                   hide_render, children, lamp, renders, facei, loaded, uvs, uv, published>>
    /\ UNCHANGED <<layoutVars, pasteVars, faceVars>>

\* buildcomposite, pass 1: sort, scale factor, layout with no height
LayoutPass1 ==
    /\ pc = "pass1"
    /\ IF faces = <<>>
       THEN Raise("AssertionError")
            /\ UNCHANGED <<sortedfaces, layouts, pass1, layoutVars>>
       ELSE LET sorted == sortedbywidth(faces)
                sf     == calcscalefactor(sorted)
                r      == layoutcomposite(ImageLayout(MARGIN, TEXMAPWIDTH, NoneVal),
                                          sorted, sf, 1)
            IN  /\ sortedfaces' = sorted
                /\ IF sf.err # "None"
                   THEN Raise(sf.err) /\ UNCHANGED <<layouts, pass1, layoutVars>>
                   ELSE /\ layouts' = 1
                        /\ layout' = r.layout
                        /\ pass1' = r.layout
                        /\ layoutErr' = r.err
                        /\ layoutRaised' = (r.err # "None")
                        /\ IF r.err # "None" THEN Raise(r.err) ELSE Goto("size")
    /\ UNCHANGED <<scene, target, sources, dissolved, faces, atlas, hide_render, children,
                   lamp, renders, facei, loaded, uvs, uv, published>>
    /\ UNCHANGED <<pasteVars, faceVars>>

\* the rounding with the composite image made first, at the size of pass 1
SizeAtlasImageFirst ==
    /\ pc = "size"
    /\ atlas' = [created |-> TRUE, size |-> getsize(layout), pasted |-> <<>>]
    /\ LET n == nextpowerof2(getsize(layout)[2], MAXIMAGEDIM)
       IN  IF n.err # "None"
           THEN Raise(n.err) /\ UNCHANGED <<layouts, layoutVars>>
           ELSE /\ layout' = ImageLayout(MARGIN, TEXMAPWIDTH, Some(n.val))
                /\ layouts' = 2
                /\ Goto("pass2")
                /\ UNCHANGED <<layoutErr, layoutRaised>>
    /\ UNCHANGED <<scene, target, sources, dissolved, faces, sortedfaces, pass1,
                   hide_render, children, lamp, renders, facei, loaded, uvs, uv, published>>
    /\ UNCHANGED <<pasteVars, faceVars>>

\* layout = ImageLayout(margin, width, nextpowerof2(layout.getsize()[1], MAXIMAGEDIM))
SizeAtlas ==
    /\ pc = "size"
    /\ LET n == nextpowerof2(getsize(layout)[2], MAXIMAGEDIM)
       IN  IF n.err # "None"
           THEN Raise(n.err) /\ UNCHANGED <<layouts, layoutVars>>
           ELSE /\ layout' = ImageLayout(MARGIN, TEXMAPWIDTH, Some(n.val))
                /\ layouts' = 2
                /\ Goto("pass2")
                /\ UNCHANGED <<layoutErr, layoutRaised>>
    /\ UNCHANGED <<scene, target, sources, dissolved, faces, sortedfaces, pass1, atlas,
                   hide_render, children, lamp, renders, facei, loaded, uvs, uv, published>>
    /\ UNCHANGED <<pasteVars, faceVars>>

\* buildcomposite, pass 2: layoutcomposite on the layout of the final size
LayoutPass2 ==
    /\ pc = "pass2"
    /\ LET r == layoutcomposite(layout, sortedfaces, calcscalefactor(sortedfaces), 1)
       IN  /\ layout' = r.layout
           /\ layoutErr' = r.err
           /\ layoutRaised' = (r.err # "None")
           /\ IF r.err # "None" THEN Raise(r.err) ELSE Goto("hide")
    /\ UNCHANGED <<scene, target, sources, dissolved, faces, sortedfaces, layouts, pass1,
                   atlas, hide_render, children, lamp, renders, facei, loaded, uvs,
                   uv, published>>
    /\ UNCHANGED <<pasteVars, faceVars>>

\* setnorender(ob, viz): sets ob.hide_render, then calls setvisible, a name the
\* module does not define, for the first child
setnorender(viz, kids) ==
    /\ hide_render' = viz
    /\ children' = kids
    /\ IF kids THEN Raise("NameError") ELSE TRUE

\* setnorender(target, True)
HideTarget ==
    /\ pc = "hide"
    /\ \E kids \in BOOLEAN :
           /\ setnorender(TRUE, kids)
           /\ ~kids => Goto("composite")
    /\ UNCHANGED <<scene, target, sources, dissolved, faces, sortedfaces, layouts, pass1,
                   atlas, lamp, renders, facei, loaded, uvs, uv, published>>
    /\ UNCHANGED <<layoutVars, pasteVars, faceVars>>

\* ----------------------------------------------------------- compositefaces

\* the rectangle of face number i and its size: rects[i], rect[2] - rect[0],
\* rect[3] - rect[1]
RectOf(i) == layout.rects[i]

WidthOf(i) == RectOf(i)[3] - RectOf(i)[1]

HeightOf(i) == RectOf(i)[4] - RectOf(i)[2]

\* compositefaces up to the loop: the composite image, the camera test, the lamp.
\* Whether the scene has a camera is settled when scene.camera is read.
CompositeStart ==
    /\ pc = "composite"
    /\ atlas' = [created |-> TRUE, size |-> getsize(layout), pasted |-> <<>>]
    /\ \E cam \in BOOLEAN :
           /\ scene' = [scene EXCEPT !.camera = cam]
           /\ IF ~cam
              THEN Raise("NoCamera") /\ UNCHANGED <<lamp, facei>>
              ELSE lamp' = TRUE /\ facei' = 1 /\ Goto("render")
    /\ UNCHANGED <<target, sources, dissolved, faces, sortedfaces, layouts, pass1,
                   hide_render, children, renders, loaded, uvs, uv, published>>
    /\ UNCHANGED <<layoutVars, pasteVars, faceVars>>

\* an exception inside the loop that goes on up with the lamp left in the scene
RaiseInLoopNoFinally(err) == UNCHANGED lamp /\ Raise(err)

\* an exception inside the loop: "finally" unlinks the lamp, then it goes on up
RaiseInLoop(err) == lamp' = FALSE /\ Raise(err)

\* setupcamera, setuplamp, rendertoimage for face i.  The renderer is outside the
\* program: the image it leaves has the size asked for, or another one.
RenderFace ==
    /\ pc = "render"
    /\ IF ~HeightEstimateOk(sortedfaces[facei], WidthOf(facei), HeightOf(facei))
       THEN RaiseInLoop("AssertionError") /\ UNCHANGED <<renders, loaded>>
       ELSE /\ renders' = renders + 1
            /\ \E size \in {<<WidthOf(facei), HeightOf(facei)>>,
                            <<WidthOf(facei) + 1, HeightOf(facei)>>} :
                   /\ loaded' = Append(loaded, size)
                   /\ IF size # <<WidthOf(facei), HeightOf(facei)>>
                      THEN RaiseInLoop("AssertionError")
                      ELSE Goto("paste") /\ UNCHANGED lamp
    /\ UNCHANGED <<scene, target, sources, dissolved, faces, sortedfaces, layouts, pass1,
                   atlas, hide_render, children, facei, uvs, uv, published>>
    /\ UNCHANGED <<layoutVars, pasteVars, faceVars>>

\* the step with the paste left out
PasteFaceSkipped ==
    /\ pc = "paste"
    /\ Goto("delete")
    /\ UNCHANGED <<scene, target, sources, dissolved, faces, sortedfaces, layouts, pass1,
                   atlas, lamp, hide_render, children, renders, facei, loaded, uvs, uv,
                   published>>
    /\ UNCHANGED <<layoutVars, pasteVars, faceVars>>

\* composite.paste(img, rect[0], rect[1]) for face i
PasteFace ==
    /\ pc = "paste"
    /\ LET img == loaded[Len(loaded)]
           x   == RectOf(facei)[1]
           y   == RectOf(facei)[2]
       IN  IF PasteWontFit(img[1], img[2], x, y, atlas.size[1], atlas.size[2])
           THEN RaiseInLoop("PasteWontFit") /\ UNCHANGED atlas
           ELSE IF PasteFullRows(img[1], x, atlas.size[1])
           THEN RaiseInLoop("AttributeError") /\ UNCHANGED atlas
           ELSE /\ atlas' = [atlas EXCEPT !.pasted = Append(@, <<x, y, img[1], img[2]>>)]
                /\ Goto("delete")
                /\ UNCHANGED lamp
    /\ UNCHANGED <<scene, target, sources, dissolved, faces, sortedfaces, layouts, pass1,
                   hide_render, children, renders, facei, loaded, uvs, uv, published>>
    /\ UNCHANGED <<layoutVars, pasteVars, faceVars>>

\* deleteimg(img), and the loop goes on to the next face or ends
DeleteImg ==
    /\ pc = "delete"
    /\ loaded' = SubSeq(loaded, 1, Len(loaded) - 1)
    /\ facei' = facei + 1
    /\ IF facei < Len(sortedfaces) THEN Goto("render") ELSE Goto("unlink")
    /\ UNCHANGED <<scene, target, sources, dissolved, faces, sortedfaces, layouts, pass1,
                   atlas, hide_render, children, lamp, renders, uvs, uv, published>>
    /\ UNCHANGED <<layoutVars, pasteVars, faceVars>>

\* the loop is over: "finally" unlinks the lamp and compositefaces returns
UnlinkLamp ==
    /\ pc = "unlink"
    /\ lamp' = FALSE
    /\ Goto("show")
    /\ UNCHANGED <<scene, target, sources, dissolved, faces, sortedfaces, layouts, pass1,
                   atlas, hide_render, children, renders, facei, loaded, uvs, uv, published>>
    /\ UNCHANGED <<layoutVars, pasteVars, faceVars>>

\* setnorender(target, False)
ShowTarget ==
    /\ pc = "show"
    /\ setnorender(FALSE, children)
    /\ ~children => Goto("uv")
    /\ UNCHANGED <<scene, target, sources, dissolved, faces, sortedfaces, layouts, pass1,
                   atlas, lamp, renders, facei, loaded, uvs, uv, published>>
    /\ UNCHANGED <<layoutVars, pasteVars, faceVars>>

\* adduvlayer(target, sortedfaces, layout, margin)
AddUVLayer ==
    /\ pc = "uv"
    /\ uvs' = TRUE
    /\ uv' = [i \in 1..Len(sortedfaces) |->
                 setuvs(sortedfaces[i], layout.rects[i], MARGIN, getsize(layout))]
    /\ Goto("output")
    /\ UNCHANGED <<scene, target, sources, dissolved, faces, sortedfaces, layouts, pass1,
                   atlas, hide_render, children, lamp, renders, facei, loaded, published>>
    /\ UNCHANGED <<layoutVars, pasteVars, faceVars>>

\* outputcomposite(target, outimg); buildimpostor returns None and execute FINISHED
OutputComposite ==
    /\ pc = "output"
    /\ published' = TRUE
    /\ pc' = "done" /\ result' = "FINISHED"
    /\ UNCHANGED <<report, status, excn>>
    /\ UNCHANGED <<scene, target, sources, dissolved, faces, sortedfaces, layouts, pass1,
                   atlas, hide_render, children, lamp, renders, facei, loaded, uvs, uv>>
    /\ UNCHANGED <<layoutVars, pasteVars, faceVars>>

NextBuild ==
    \/ Execute
    \/ LimitedDissolve
    \/ ComputeFaces
    \/ LayoutPass1
    \/ SizeAtlas
    \/ LayoutPass2
    \/ HideTarget
    \/ CompositeStart
    \/ RenderFace
    \/ PasteFace
    \/ DeleteImg
    \/ UnlinkLamp
    \/ ShowTarget
    \/ AddUVLayer
    \/ OutputComposite

SpecBuild == InitBuild /\ [][NextBuild]_vars

\* ------------------------------------------------------------ claims C1, C2

\* pixel (px, py) belongs to rectangle r = (x0, y0, x1, y1)
InRect(px, py, r) == r[1] <= px /\ px < r[3] /\ r[2] <= py /\ py < r[4]

RectsOverlap(r, s) ==
    Max(r[1], s[1]) < Min(r[3], s[3]) /\ Max(r[2], s[2]) < Min(r[4], s[4])

\* C1: after any sequence of getrect calls that all returned without error, no
\* two distinct rectangles of the layout's rect list share a pixel.
C1_RectsDisjoint ==
    ~layoutRaised =>
        \A i, j \in 1..Len(layout.rects) :
            i # j => ~RectsOverlap(layout.rects[i], layout.rects[j])

\* C1 witness: two rectangles with pixels on one row and a third on a new row
C1_Witness ==
    /\ ~layoutRaised
    /\ Len(layout.rects) = 3
    /\ \A i \in 1..3 : layout.rects[i][1] < layout.rects[i][3]
                       /\ layout.rects[i][2] < layout.rects[i][4]
    /\ layout.rects[1][2] = layout.rects[2][2]
    /\ layout.rects[3][2] > layout.rects[1][2]
    /\ layout.rects[1][4] # layout.rects[2][4]

\* C2: after any sequence of getrect calls that all returned without error,
\* every placed rectangle lies inside [0, W] x [0, H], (W, H) = getsize(),
\* for an auto-height layout and for a layout with a fixed height.
C2_RectsInsideSize ==
    ~layoutRaised =>
        \A i \in 1..Len(layout.rects) :
            LET r == layout.rects[i]
                sz == getsize(layout)
            IN  /\ 0 <= r[1] /\ r[1] <= r[3] /\ r[3] <= sz[1]
                /\ 0 <= r[2] /\ r[2] <= r[4] /\ r[4] <= sz[2]

\* ---------------------------------------------------------------- claim C5

\* the last paste call asked for a placement outside the atlas
PasteOutside(args, im) ==
    \/ args[3] < 0
    \/ args[4] < 0
    \/ args[3] + args[1] > im.size[1]
    \/ args[4] + args[2] > im.size[2]

\* C5: a paste call with x < 0, y < 0, x + source width > atlas width or
\* y + source height > atlas height raises an error and leaves every pixel of
\* the atlas as it was before the call.
C5_PasteOutsideRaises ==
    [][(pasteCount' # pasteCount /\ PasteOutside(pasteArgs', image))
          => (pasteErr' = "ValueError" /\ image' = image)]_vars

\* C5 witness: a paste at a negative x onto an atlas that holds pasted pixels
\* was refused
C5_Witness ==
    /\ pasteCount = 2
    /\ pasteArgs[3] < 0 /\ pasteArgs[4] > 0
    /\ pasteErr = "ValueError"
    /\ \E k \in 1..Len(image.pixels) : image.pixels[k] # 0

\* ---------------------------------------------------------------- claim C6

\* the squared length of edge k (from 0) of the loop, on scaled vertices
EdgeLength2(loop, sc, k) ==
    Norm2(VSub(vecmult(sc, LoopAt(loop, k + 1)), vecmult(sc, LoopAt(loop, k))))

\* the first edge, in traversal order, of greatest length among all the edges
FirstLongestEdge(loop, sc) ==
    CHOOSE k \in 0..(Len(loop) - 1) :
        /\ \A j \in 0..(Len(loop) - 1) : EdgeLength2(loop, sc, j) <= EdgeLength2(loop, sc, k)
        /\ \A j \in 0..(k - 1) : EdgeLength2(loop, sc, j) < EdgeLength2(loop, sc, k)

\* C6: the base edge of every face built is the longest edge among all the
\* edges of the circular loop, measured on scaled vertices, edges followed by a
\* collinear vertex included; of equally long edges the first in traversal order.
C6_BaseEdgeLongestOfAll ==
    faceErr = "None" =>
        LET k == FirstLongestEdge(poly, scale)
        IN  face.baseedge = <<vecmult(scale, LoopAt(poly, k)),
                              vecmult(scale, LoopAt(poly, k + 1))>>

\* ------------------------------------------------------------ claims C3, C4

IsPowerOf2(n) == \E k \in 0..12 : n = 2 ^ k

\* C3: the atlas height buildcomposite computes with nextpowerof2 is a power of
\* two and never exceeds MAXIMAGEDIM: when pass 1 needs a height above the
\* maximum, nextpowerof2 raises and no layout of the final size is made.
C3_AtlasHeightBounded ==
    layouts = 2 =>
        /\ IsPowerOf2(layout.height[1])
        /\ layout.height[1] <= MAXIMAGEDIM
        /\ pass1.ymax <= MAXIMAGEDIM

\* C4: the target is hidden from rendering during every per-face render, and
\* whenever the build ends, normally or because a step after the hiding failed,
\* the target's hide_render is False again.
C4_TargetShownAgain ==
    /\ pc \in {"render", "paste", "delete"} => hide_render
    /\ pc = "done" => ~hide_render

\* --------------------------------------------------------------- claims C7, C8

\* the cross product ImpostorFace takes at vertex k (from 0) of the scaled loop
CrossAt(loop, sc, k) ==
    LET v0 == vecmult(sc, LoopAt(loop, k))
        v1 == vecmult(sc, LoopAt(loop, k + 1))
        v2 == vecmult(sc, LoopAt(loop, k + 2))
    IN  VCross(VSub(v1, v0), VSub(v2, v1))

ValidCrosses(loop, sc) ==
    {CrossAt(loop, sc, k) : k \in 0..(Len(loop) - 1)} \ {c \in {CrossAt(loop, sc, k) : k \in 0..(Len(loop) - 1)} : CrossTooShort(c)}

\* fewer than three loop vertices, no valid cross product, or two valid cross
\* products that disagree beyond NORMALERROR
BadPolygon(loop, sc) ==
    \/ Len(loop) < 3
    \/ ValidCrosses(loop, sc) = {}
    \/ \E c, d \in ValidCrosses(loop, sc) : NormalsDisagree(Normalized(c), Normalized(d))

\* none of layout, render, atlas creation, outputcomposite has been performed
NothingBuilt == layouts = 0 /\ renders = 0 /\ ~atlas.created /\ ~published

\* C7: if any polygon of the target is bad (BadPolygon), buildimpostor ends with
\* a non-empty error status, and no layout, no render call, no atlas creation and
\* no outputcomposite has been performed.
C7_BadPolygonReported ==
    (/\ pc = "done"
     /\ dissolved
     /\ \E k \in 1..Len(scene.polygons[target]) :
            BadPolygon(scene.polygons[target][k], scale))
        => status # "None" /\ NothingBuilt

\* the triangles an object holds: those of its polygons, none when it is no mesh
TrianglesOf(obj) ==
    IF TypeOf(obj) = "MESH" THEN counttriangles(scene.polygons[obj]) ELSE 0

RECURSIVE TrianglesOfAll(_)
TrianglesOfAll(objs) ==
    IF objs = <<>> THEN 0 ELSE TrianglesOf(Head(objs)) + TrianglesOfAll(Tail(objs))

\* one of the four preconditions of execute fails: nothing is selected, the
\* target is not a mesh, a scale component is negative, or the target holds more
\* triangles than its source objects together
PreconditionFails ==
    \/ scene.selected_objects = <<>>
    \/ TypeOf(scene.selected_objects[1]) # "MESH"
    \/ scale[1] < 0 \/ scale[2] < 0 \/ scale[3] < 0
    \/ TrianglesOf(scene.selected_objects[1])
           > TrianglesOfAll(SourcesOf(scene, scene.selected_objects[1]))

\* C8: whenever a precondition fails, execute returns CANCELLED with an error
\* report and without calling buildimpostor: no dissolve, no face computation,
\* no layout, no render, no image and no material change.
C8_PreconditionsCancel ==
    (pc # "execute" /\ PreconditionFails) =>
        /\ result = "CANCELLED"
        /\ report # "None"
        /\ ~dissolved /\ faces = <<>> /\ NothingBuilt /\ ~uvs

\* ------------------------------------------------------------ claims C9, C10

\* C9: whenever the build fails with a layout error (a face too wide for the
\* atlas, a rectangle that does not fit the fixed height, a required height
\* above the maximum), no render call has been made, no atlas has been created
\* and nothing has been pasted.
C9_LayoutErrorsBeforeRender ==
    status \in {"TooWide", "WontFit", "TooLarge"} =>
        renders = 0 /\ ~atlas.created /\ atlas.pasted = <<>> /\ loaded = <<>>

\* C9 witness: the build of a strip too long for the largest atlas has ended
\* with the error of nextpowerof2
C9_Witness ==
    pc = "done" /\ status = "TooLarge" /\ layouts = 1 /\ pass1.ymax > 2 * MAXIMAGEDIM

\* C10: pass 2 of the layout places every face in the rectangle pass 1 gave it,
\* and raises no error whenever pass 1 and the rounding to a power of two went
\* through.
C10_Pass2RepeatsPass1 ==
    (layouts = 2 /\ pc # "pass2") =>
        /\ layout.rects = pass1.rects
        /\ layoutErr = "None"
        /\ status \notin {"TooWide", "WontFit"}

\* C10 witness: pass 2 has laid out the six faces of the cube, in two rows
C10_Witness ==
    /\ layouts = 2 /\ pc = "hide"
    /\ Len(layout.rects) = 6
    /\ layout.rects[6][2] > layout.rects[1][2]
    /\ layout.rects[2][1] > layout.rects[1][1]

\* ------------------------------------------------------------------ claim C11

C12_UVInsideOwnRect ==
    uvs =>
        \A i \in 1..Len(uv) : \A k \in 1..Len(uv[i]) :
            LET r == layout.rects[i]
                W == getsize(layout)[1]
                H == getsize(layout)[2]
                p == uv[i][k]
            IN  /\ r[1] * p.ud <= p.un * W /\ p.un * W <= r[3] * p.ud
                /\ r[2] * p.vd <= p.vn * H /\ p.vn * H <= r[4] * p.vd
                /\ 0 <= p.un /\ p.un <= p.ud
                /\ 0 <= p.vn /\ p.vn <= p.vd

\* ------------------------------------------------------------------ claim C13

\* C13: every failure raised inside buildimpostor, whatever its stage, is caught
\* at buildimpostor and returned as a non-empty status: when buildimpostor has
\* ended no exception has left it, and it has either carried the build through
\* to the material output or returned a status message.
C13_FailuresBecomeStatus ==
    (pc = "done" /\ dissolved) =>
        /\ excn = "None"
        /\ result = "FINISHED"
        /\ (published \/ (status # "None" /\ report = status))

\* ------------------------------------------------------------ claims C14, C15

\* C14: during compositefaces at most one transient rendered image exists at any
\* time, each is deleted right after its paste, and when compositefaces has
\* ended, normally or through a failed render check or paste, none remains:
\* an image is loaded only between its render and the delete after its paste.
C14_TransientImagesReleased ==
    /\ Len(loaded) <= 1
    /\ pc \notin {"paste", "delete"} => loaded = <<>>

\* the state of each phase of a build
PhasesInOrder ==
    /\ layouts >= 1 => dissolved /\ faces # <<>> /\ sortedfaces # <<>>
    /\ (renders > 0 \/ atlas.created \/ atlas.pasted # <<>> \/ uvs) =>
           /\ layouts = 2
           /\ pc \notin {"execute", "dissolve", "faces", "pass1", "size", "pass2"}
           /\ Len(layout.rects) = Len(sortedfaces)
    /\ pc = "render" => renders = facei - 1 /\ Len(atlas.pasted) = facei - 1
    /\ pc = "paste" => renders = facei /\ Len(atlas.pasted) = facei - 1
    /\ pc = "delete" => renders = facei /\ Len(atlas.pasted) = facei
    /\ uvs => renders = Len(sortedfaces) /\ Len(atlas.pasted) = Len(sortedfaces)
    /\ published => uvs
    /\ (status # "None" \/ excn # "None") => pc = "done" /\ ~uvs /\ ~published

\* C15: in every build run the phases occur in the order faces computed, pass-1
\* layout, sizing, pass-2 layout, per-face render and paste, UV assignment,
\* material output: no render, paste or UV write comes before pass 2 has ended,
\* face i is pasted before face i+1 is rendered, and once the run has ended,
\* by failure or not, no further step is taken.
C15_PhaseOrder == [](PhasesInOrder) /\ [][pc # "done"]_vars

\* C15 witness: the six faces of the cube were rendered and pasted one after
\* the other, the UVs set and the material written
C15_Witness ==
    /\ pc = "done" /\ published /\ uvs
    /\ renders = 6 /\ Len(atlas.pasted) = 6 /\ layouts = 2

\* ------------------------------------------------------------ claims C16, C17

\* channel c (from 0) of pixel (px, py) of a buffer of rows w pixels wide
ChannelAt(pixels, w, px, py, c) == pixels[(py * w + px) * CHANNELS + c + 1]

\* the step is a paste call whose source lies inside the atlas
PasteInside == pasteCount' # pasteCount /\ ~PasteOutside(pasteArgs', image)

\* the source of the paste call covers whole rows of the atlas: x = 0 and the
\* source as wide as the atlas
PasteWholeRows == pasteArgs'[3] = 0 /\ pasteArgs'[1] = image.size[1]

\* after the paste call, the atlas holds the source at (x, y) and is as before
\* everywhere else
PastedInPlace ==
    LET inw == pasteArgs'[1]
        inh == pasteArgs'[2]
        x   == pasteArgs'[3]
        y   == pasteArgs'[4]
        src == SourceImage(inw, inh)
        w   == image.size[1]
    IN  /\ pasteErr' = "None"
        /\ image'.size = image.size
        /\ Len(image'.pixels) = Len(image.pixels)
        /\ \A px \in 0..(w - 1), py \in 0..(image.size[2] - 1), c \in 0..(CHANNELS - 1) :
               ChannelAt(image'.pixels, w, px, py, c) =
                   IF x <= px /\ px < x + inw /\ y <= py /\ py < y + inh
                   THEN ChannelAt(src.pixels, inw, px - x, py - y, c)
                   ELSE ChannelAt(image.pixels, w, px, py, c)

\* C16: a paste of an in-bounds source with x = 0 and the width of the atlas
\* (the fast path) completes without error; afterwards the atlas rows
\* y .. y + source height - 1 equal the source rows in order and every other
\* row is unchanged.
C16_FastPathCopiesRows == [][(PasteInside /\ PasteWholeRows) => PastedInPlace]_vars

\* C17: an in-bounds paste on the general path (x # 0 or source width # atlas
\* width) leaves atlas pixel (x+i, y+j) equal to source pixel (i, j) in all 4
\* channels for every pixel of the source, and every atlas pixel outside that
\* rectangle unchanged.
C17_GeneralPathCopiesPixels == [][(PasteInside /\ ~PasteWholeRows) => PastedInPlace]_vars

\* C17 witness: a second source, narrower than the atlas and two rows high, was
\* pasted at x = 1 beside pixels pasted before
C17_Witness ==
    /\ pasteCount = 2
    /\ pasteErr = "None"
    /\ pasteArgs[3] = 1 /\ pasteArgs[1] < image.size[1] /\ pasteArgs[2] = 2
    /\ ChannelAt(image.pixels, image.size[1], 0, 0, 0) # 0
    /\ ChannelAt(image.pixels, image.size[1], 1, 1, 0) # 0

\* ------------------------------------------------------------------ claim C18

\* the greatest (bottom + margin) over the rectangles placed so far, 0 when none
BottomPlusMargin(l) == SetMax({0} \cup {l.rects[i][4] + l.margin : i \in 1..Len(l.rects)})

\* C18: on every layout the program can hold, a call getrect(width, height) of
\* a rectangle not too wide for the atlas places it on the current shelf, at
\* (cursor_x + margin, shelf_y + margin), whenever
\* cursor_x + width + 2*margin <= atlas width, and otherwise on a new shelf that
\* starts at y = ymax, the greatest (bottom + margin) over the rectangles placed
\* so far.
C18_ShelfWhenFits ==
    \A width \in 0..MaxLayoutWidth, height \in 0..MaxRectHeight :
        LET r    == getrect(layout, width, height)
            fits == layout.xpos + width + 2 * layout.margin <= layout.width
        IN  r.err # "TooWide" =>
                /\ Len(r.layout.rects) = Len(layout.rects) + 1
                /\ fits  => /\ r.layout.ypos = layout.ypos
                            /\ r.layout.rects[Len(r.layout.rects)][1] = layout.xpos + layout.margin
                            /\ r.layout.rects[Len(r.layout.rects)][2] = layout.ypos + layout.margin
                /\ ~fits => /\ r.layout.ypos = BottomPlusMargin(layout)
                            /\ r.layout.rects[Len(r.layout.rects)][1] = layout.margin
                            /\ r.layout.rects[Len(r.layout.rects)][2] =
                                   BottomPlusMargin(layout) + layout.margin

\* ------------------------------------------------------------------ claim C19

\* the face-plane Z of vertex v of face f is within the tolerance of zero on
\* both sides: |Z| < 0.01
WithinPlaneTolerance(f, v) ==
    LET m == PlaneCoord(f, v, FacePlaneAxes(f).z)
    IN  m * m * PLANEERROR_DEN * PLANEERROR_DEN
            < f.looptotal * f.looptotal * Norm2(FacePlaneAxes(f).z)
                  * PLANEERROR_NUM * PLANEERROR_NUM

\* C19: the planarity check rejects every face with a projected vertex whose
\* face-plane Z is outside the tolerance in either direction (Z >= 0.01 or
\* Z <= -0.01): a face is accepted only when |Z| < 0.01 for all its vertices.
C19_PlanarityBothSides ==
    faceErr = "None" =>
        \A k \in 1..Len(face.scaledverts) : WithinPlaneTolerance(face, face.scaledverts[k])

\* ------------------------------------------------------------------ claim C20

\* the sum of the vectors of a sequence
RECURSIVE VSum(_)
VSum(vs) == IF vs = <<>> THEN <<0, 0, 0>> ELSE VAdd(vs[1], VSum(Tail(vs)))

\* C20: for every accepted loop, the centroid used as origin of the first
\* face-plane transform is the sum of the scaled positions of all loop vertices
\* divided by the loop vertex count (the divisor is looptotal on both sides, so
\* the sums are compared).
C20_CentroidOfAllVertices ==
    faceErr = "None" =>
        /\ face.looptotal = Len(poly)
        /\ face.centersum = VSum([k \in 1..Len(poly) |-> vecmult(scale, poly[k])])

\* ------------------------------------------------------------------ claim C21

\* C21: for every selection of one or more objects, the target of execute
\* (selected_objects[0]) is never a member of the sources list used for the
\* triangle test and passed to buildimpostor.
C21_TargetNotInSources == target \notin Range(sources)

\* ------------------------------------------------------------------ claim C22

\* C22: a getrect call that raises an error (rectangle too wide, or fixed
\* height exceeded) leaves the layout unchanged: the rect list, the x and y
\* cursors and ymax after the failed call equal their values before it.
C22_FailedGetRectChangesNothing ==
    [][layoutErr' # "None" =>
           /\ layout'.rects = layout.rects
           /\ layout'.xpos = layout.xpos
           /\ layout'.ypos = layout.ypos
           /\ layout'.ymax = layout.ymax]_vars

\* ------------------------------------------------------------------ claim C23

\* the faces have their final rectangles: pass 2 of the layout is done
LaidOut == pc \in {"hide", "composite", "render", "paste", "delete", "unlink", "show", "uv", "output"}

\* C23: for every face the pipeline has laid out, the height-estimate assertion
\* of rendertofile holds for the pixel size layoutcomposite gave it (the pixel
\* height differs by less than 2 from floor((h / w) * pixel width)), and its
\* pixel width is not 0.
C23_HeightEstimateHolds ==
    LaidOut =>
        \A i \in 1..Len(sortedfaces) :
            /\ HeightEstimateOk(sortedfaces[i], WidthOf(i), HeightOf(i))
            /\ WidthOf(i) > 0

\* ------------------------------------------------------------------ claim C24

\* compositefaces is between addlamp and the end of its "finally"
InFaceLoop == pc \in {"render", "paste", "delete", "unlink"}

\* C24: the temporary lamp is in the scene only while compositefaces is in its
\* loop over the faces, so it is unlinked whenever compositefaces has ended,
\* after all faces and after a failure in a render or paste step alike; and it
\* is never linked in a scene with no camera, so the objects of the scene after
\* compositefaces are those before it.
C24_LampUnlinked ==
    /\ lamp => InFaceLoop
    /\ lamp => scene.camera

\* C24 witness: with a camera in the scene the first face was rendered under the
\* lamp, the step failed, the run has ended and the lamp is out of the scene
C24_Witness ==
    /\ pc = "done"
    /\ scene.camera
    /\ atlas.created
    /\ Len(loaded) = 1
    /\ excn = "AssertionError"
    /\ ~lamp

====
